---- MODULE Spec2Model ----
(***************************************************************************)
(* A model of the option pricers of qfrm: Bermudan (lattice and Monte      *)
(* Carlo), Shout (lattice) and Chooser.                                    *)
(*                                                                         *)
(* Numbers.  Prices, rates, volatilities, probabilities and discount       *)
(* factors are fixed-point integers with SC units to 1 (50.00 is 5000,     *)
(* a rate of 0.05 is 5).  Times are in 1/SC of a year (T = 2 years is      *)
(* 200), so a time is its own fixed-point value.  The lattice step dt =    *)
(* T/n is kept as the exact fraction dtNum/dtDen, and i*dt is compared     *)
(* with a schedule date by cross-multiplication.                           *)
(***************************************************************************)
EXTENDS Integers, Sequences, FiniteSets, TLC

VARIABLES
    opt,      \* the option object's fields set at construction
    tex,      \* self.tex, the stored exercise schedule (Bermudan)
    tau,      \* self.tau, the decision time (Chooser)
    px_spec,  \* self.px_spec, the PriceSpec result container
    rng,      \* the state of the process-wide random number generator
    call,     \* the last calc_px call: its arguments and how it ended
    loc,      \* the local arrays of the last valuation (trees, path matrices)
    mcRef     \* history: one earlier Monte Carlo call, kept for comparison

vars == <<opt, tex, tau, px_spec, rng, call, loc, mcRef>>

----------------------------------------------------------------------------
(* Fixed-point arithmetic and the library functions.                       *)

SC == 10 * 10

None == -1

Abs(x) == IF x < 0 THEN -x ELSE x

\* The array f with every entry computed (a numpy array holds values).
Array(f) == f @@ << >>

Max2(a, b) == IF a >= b THEN a ELSE b

RECURSIVE SeqMaxFrom(_, _)
SeqMaxFrom(s, k) ==
    IF k = Len(s) THEN s[k] ELSE Max2(s[k], SeqMaxFrom(s, k + 1))

\* Python's max() of a non-empty tuple.
SeqMax(s) == SeqMaxFrom(s, 1)

RECURSIVE SeqSumFrom(_, _)
SeqSumFrom(s, k) ==
    IF k > Len(s) THEN 0 ELSE s[k] + SeqSumFrom(s, k + 1)

SeqSum(s) == SeqSumFrom(s, 1)

\* Python's int(a / b): the quotient truncated toward zero (b # 0).
TruncDiv(a, b) ==
    IF (a >= 0) = (b > 0) THEN Abs(a) \div Abs(b) ELSE -(Abs(a) \div Abs(b))

Mul(a, b) == (a * b) \div SC

Div(a, b) == (a * SC) \div b

RECURSIVE Pow(_, _)
Pow(b, e) == IF e = 0 THEN SC ELSE Mul(b, Pow(b, e - 1))

ExpTerms == 8

RECURSIVE ExpSeries(_, _, _, _)
ExpSeries(x, k, term, acc) ==
    IF k > ExpTerms \/ term = 0 THEN acc
    ELSE ExpSeries(x, k + 1, (term * x) \div (k * SC), acc + term)

\* exp(x): the Taylor series for x >= 0, the reciprocal for x < 0.
Exp(x) ==
    IF x >= 0 THEN ExpSeries(x, 1, SC, 0)
    ELSE (SC * SC) \div ExpSeries(-x, 1, SC, 0)

RECURSIVE SqrtFrom(_, _)
SqrtFrom(v, r) ==
    LET r1 == (r + v \div r) \div 2
    IN  IF r1 >= r THEN r ELSE SqrtFrom(v, r1)

\* sqrt(x) for x >= 0: the integer square root of x * SC, by Newton's steps.
Sqrt(x) == IF x = 0 THEN 0 ELSE SqrtFrom(x * SC, x * SC)

\* The standard normal CDF at 0, 0.5, 1, ..., 3 (beyond 3 it is 1).
PhiTable == <<50, 69, 84, 93, 98, 99, 100>>

PhiPos(x) ==
    LET k == x \div 50
    IN  IF k >= 6 THEN 100
        ELSE PhiTable[k + 1]
             + ((PhiTable[k + 2] - PhiTable[k + 1]) * (x - 50 * k)) \div 50

\* stats.norm.cdf
Phi(x) == IF x >= 0 THEN PhiPos(x) ELSE SC - PhiPos(-x)

----------------------------------------------------------------------------
(* The base option object (OptionValuation) and its result container.      *)

\* signCP: +1 for a call, -1 for a put.
SignCP(right) == IF right = "call" THEN 1 ELSE -1

NoTree == << >>

NoLT == [ok |-> FALSE, n |-> 0, dtNum |-> 0, dtDen |-> 1, u |-> 0, d |-> 0,
         a |-> 0, p |-> 0, df_dt |-> 0, df_T |-> 0]

\* LT_specs(n): the lattice parameters, refused when the inputs are out of
\* domain or the risk-neutral probability is not in [0, 1].
LT_specs(o, n) ==
    IF o.vol <= 0 \/ o.T <= 0 \/ n < 1 THEN NoLT
    ELSE
      LET dt   == o.T \div n
          u    == Exp(Mul(o.vol, Sqrt(dt)))
          d    == (SC * SC) \div u
          a    == Exp(Mul(o.rf_r - o.q, dt))
      IN  IF u = d THEN NoLT
          ELSE
            LET p == Div(a - d, u - d)
            IN  IF p < 0 \/ p > SC THEN NoLT
                ELSE [ok |-> TRUE, n |-> n, dtNum |-> o.T, dtDen |-> n,
                      u |-> u, d |-> d, a |-> a, p |-> p,
                      df_dt |-> Exp(-Mul(o.rf_r, dt)),
                      df_T |-> Exp(-Mul(o.rf_r, o.T))]

\* PriceSpec(...): the arguments of calc_px, no price yet.
PriceSpec(method, nsteps, npaths, keep_hist, R, seed) ==
    [method |-> method, nsteps |-> nsteps, npaths |-> npaths,
     keep_hist |-> keep_hist, R |-> R, seed |-> seed,
     has_px |-> FALSE, px |-> 0, sub_method |-> "",
     LT_specs |-> NoLT, ref_tree |-> NoTree, opt_tree |-> NoTree]

\* The state of an object that has not priced anything yet.
NoPriceSpec == PriceSpec("", None, None, FALSE, None, None)

NoCall == [cls |-> "", method |-> "", tex |-> << >>, tau |-> None,
           nsteps |-> None, npaths |-> None, keep_hist |-> FALSE,
           R |-> None, seed |-> None, outcome |-> ""]

NoLoc == [S_tree |-> NoTree, O_tree |-> NoTree, LT_specs |-> NoLT,
          stock_price_paths |-> << >>, payouts |-> << >>,
          terminal_payouts |-> << >>]

----------------------------------------------------------------------------
(* The lattice: terminal layer and the discounted expectation.             *)

\* S0 * d ** arange(n, -1, -1) * u ** arange(0, n + 1)
TerminalS(o, lt, n) ==
    Array([j \in 1..(n + 1) |->
        Mul(Mul(o.S0, Pow(lt.d, n - (j - 1))), Pow(lt.u, j - 1))])

\* maximum(signCP * (S - K), 0)
Payout(o, S) ==
    Array([j \in 1..Len(S) |-> Max2(o.signCP * (S[j] - o.K), 0)])

\* One entry of df_dt * ((1 - p) * O[:i] + p * O[1:]).
Continuation(lt, O, j) ==
    Mul(lt.df_dt, Mul(SC - lt.p, O[j]) + Mul(lt.p, O[j + 1]))

\* Mutant: the layer is not sliced.
PriorS_Unsliced(lt, S, i) == Array([j \in 1..Len(S) |-> Mul(lt.d, S[j])])

\* d * S[1:i+1]
PriorS(lt, S, i) == Array([j \in 1..i |-> Mul(lt.d, S[j + 1])])

----------------------------------------------------------------------------
(* Bermudan.calc_px: the exercise schedule and the step count.             *)

\* deltaT < epsilon and deltaT > epsilon, epsilon = 10 ** (-11): a
\* difference of two times is a whole number of 1/SC years, and epsilon
\* lies strictly between 0 and one such unit.
BelowEpsilon(deltaT) == deltaT <= 0

AboveEpsilon(deltaT) == deltaT >= 1

\* tex[:-1] + (self.T,)
ReplaceLast(texA, selfT) == SubSeq(texA, 1, Len(texA) - 1) \o <<selfT>>

\* tuple(asarray(tex)[asarray(tex) < self.T]) + (self.T,)
TruncateAppend(texA, selfT) ==
    SelectSeq(texA, LAMBDA t : t < selfT) \o <<selfT>>

\* The schedule stored in self.tex for the caller's tex (non-empty).
NormaliseTex(texA, selfT) ==
    LET deltaT == selfT - SeqMax(texA)
    IN  IF BelowEpsilon(deltaT) THEN TruncateAppend(texA, selfT)
        ELSE IF AboveEpsilon(deltaT) THEN ReplaceLast(texA, selfT)
        ELSE texA

\* How the computation of knsteps ends: max() of an empty tuple when the
\* schedule has one date; a division by zero (ZeroDivisionError, or
\* OverflowError from int(inf) for numpy floats) when two neighbours are equal.
KnStepsOutcome(texN) ==
    IF Len(texN) < 2 THEN "ValueError"
    ELSE IF \E i \in 1..(Len(texN) - 1) : texN[i + 1] = texN[i]
         THEN "ArithmeticError"
    ELSE "ok"

\* max(int(T / (tex[i+1] - tex[i]))), T the largest date the caller gave.
KnSteps(texN, T) ==
    SeqMax([i \in 1..(Len(texN) - 1) |-> TruncDiv(T, texN[i + 1] - texN[i])])

\* knsteps * nsteps when nsteps is given.
StepCount(texN, T, nsteps) ==
    IF nsteps # None THEN KnSteps(texN, T) * nsteps ELSE KnSteps(texN, T)

----------------------------------------------------------------------------
(* Bermudan._calc_LT                                                       *)

\* Mutant: the membership test asks for the time of the node, (i - 1) * dt.
BermudanCondition_NodeTime(i, lt, texN) ==
    \E k \in 1..Len(texN) : (i - 1) * lt.dtNum = texN[k] * lt.dtDen

\* i * dt in self.tex
BermudanCondition(i, lt, texN) ==
    \E k \in 1..Len(texN) : i * lt.dtNum = texN[k] * lt.dtDen

\* Mutant: the smaller of the two values is kept.
ExerciseOrHold_Minimum(O, P) ==
    Array([j \in 1..Len(O) |-> IF O[j] <= P[j] THEN O[j] ELSE P[j]])

\* np.maximum(O, Payout)
ExerciseOrHold(O, P) == Array([j \in 1..Len(O) |-> Max2(O[j], P[j])])

\* One pass of the loop body for step i: the layer of step i - 1.
BermudanStep(i, S, O, lt, o, texN) ==
    LET O1 == Array([j \in 1..i |-> Continuation(lt, O, j)])
        S1 == PriorS(lt, S, i)
    IN  [S |-> S1,
         O |-> IF BermudanCondition(i, lt, texN)
               THEN ExerciseOrHold(O1, Payout(o, S1)) ELSE O1]

RECURSIVE BermudanBackward(_, _, _, _, _, _, _, _)
BermudanBackward(i, S, O, S_tree, O_tree, lt, o, texN) ==
    IF i = 0 THEN [O |-> O, S_tree |-> S_tree, O_tree |-> O_tree]
    ELSE LET st == BermudanStep(i, S, O, lt, o, texN)
         IN  BermudanBackward(i - 1, st.S, st.O, <<st.S>> \o S_tree,
                              <<st.O>> \o O_tree, lt, o, texN)

\* _calc_LT: the price and the two trees, or the refusal of LT_specs.
Bermudan_calc_LT(o, texN, ps) ==
    LET n  == ps.nsteps
        lt == LT_specs(o, n)
    IN  IF ~lt.ok THEN [outcome |-> "InvalidParameter", px_spec |-> ps, loc |-> NoLoc]
        ELSE
          LET S == TerminalS(o, lt, n)
              O == Payout(o, S)
              r == BermudanBackward(n, S, O, <<S>>, <<O>>, lt, o, texN)
          IN  [outcome |-> "returned",
               px_spec |-> [ps EXCEPT !.has_px = TRUE, !.px = r.O[1],
                               !.method = "LT",
                               !.sub_method = "binomial tree; Hull Ch.13",
                               !.LT_specs = lt,
                               !.ref_tree = IF ps.keep_hist THEN r.S_tree ELSE NoTree,
                               !.opt_tree = IF ps.keep_hist THEN r.O_tree ELSE NoTree],
               loc |-> [NoLoc EXCEPT !.S_tree = r.S_tree, !.O_tree = r.O_tree,
                                     !.LT_specs = lt]]

\* _calc_BS and _calc_FD: return self.
Bermudan_calc_BS(ps) == [outcome |-> "returned", px_spec |-> ps, loc |-> NoLoc]

Bermudan_calc_FD(ps) == [outcome |-> "returned", px_spec |-> ps, loc |-> NoLoc]

----------------------------------------------------------------------------
(* The process-wide random number generator (numpy.random).                *)

RngMod == 4

\* np.random.seed(seed): the state is a function of the seed alone.
Seed(seed) == seed % RngMod

\* Mutant: the call does not seed the generator.
Reseed_Skipped(state, seed) == state

\* np.random.seed(seed) as the first statement of Bermudan.calc_px: the new
\* state of the generator, whatever the old one.
Reseed(state, seed) == Seed(seed)

\* The generator's step: a full-period congruential generator.
RngNext(s) == (5 * s + 3) % RngMod

RECURSIVE RngAfter(_, _)
RngAfter(s, m) == IF m = 0 THEN s ELSE RngAfter(RngNext(s), m - 1)

NormalTable == <<-150, -50, 50, 150>>

\* The standard normal sample delivered from state s.
NormalSample(s) == NormalTable[s + 1]

----------------------------------------------------------------------------
(* Bermudan._calc_MC                                                       *)

\* delta_T_array(): the gaps of the schedule, the first one from time 0.
Delta_T_array(texN) ==
    Array([k \in 1..Len(texN) |->
        texN[k] - (IF k = 1 THEN 0 ELSE texN[k - 1])])

\* exp((drift - 0.5 * vol ** 2) * delta + vol * Z * sqrt(delta))
Discount(o, delta, Z) ==
    Exp(Mul((o.rf_r - o.q) - Mul(50, Mul(o.vol, o.vol)), delta)
        + Mul(Mul(o.vol, Z), Sqrt(delta)))

\* The loop over the dates: column tex_index + 1 from column tex_index.  The
\* sample of path p at date k is draw number (k - 1) * npaths + p.
RECURSIVE PathColumns(_, _, _, _, _, _)
PathColumns(o, deltas, npaths, s0, k, cols) ==
    IF k > Len(deltas) THEN cols
    ELSE PathColumns(o, deltas, npaths, s0, k + 1,
            Append(cols,
                Array([p \in 1..npaths |->
                    Mul(cols[k][p],
                        Discount(o, deltas[k],
                            NormalSample(RngAfter(s0, (k - 1) * npaths + p))))])))

\* generate_stock_price_paths: the matrix by columns 0..len(tex), column 0
\* the start price.
Generate_stock_price_paths(o, texN, npaths, s0) ==
    LET cols == PathColumns(o, Delta_T_array(texN), npaths, s0, 1,
                            <<Array([p \in 1..npaths |-> o.S0])>>)
    IN  Array([k \in 0..Len(texN) |-> cols[k + 1]])

\* payout(stock_price_paths)
PayoutMatrix(o, paths) == Array([k \in DOMAIN paths |-> Payout(o, paths[k])])

Mean(v) == SeqSum(v) \div Len(v)

\* The mean of y over the paths whose x equals x[p].
GroupMean(x, y, p) ==
    LET G == {q \in 1..Len(x) : x[q] = x[p]}
    IN  SeqSum([q \in 1..Len(x) |-> IF q \in G THEN y[q] ELSE 0])
          \div Cardinality(G)

\* The least-squares line through (x, y), evaluated at x[p].
LinearFit(x, y, p) ==
    LET xbar == Mean(x)
        ybar == Mean(y)
        Sxx  == SeqSum([q \in 1..Len(x) |-> (x[q] - xbar) * (x[q] - xbar)])
        Sxy  == SeqSum([q \in 1..Len(x) |-> (x[q] - xbar) * (y[q] - ybar)])
    IN  ybar + Mul(Div(Sxy, Sxx), x[p] - xbar)

\* np.polyval(np.polyfit(x, y, R), x) for R >= 0: the least-squares
\* polynomial of degree R at the sample points, evaluated path by path (as
\* the values of the docstring's MC examples have it).  Degree 0 is the mean; a
\* degree of at least (number of distinct x) - 1 passes through the mean of
\* y at every distinct x; degree 1 is the regression line.  The path counts
\* of this model leave no other case.
Continuation_price(x, y, R) ==
    LET m == Cardinality({x[q] : q \in 1..Len(x)})
    IN  Array([p \in 1..Len(x) |->
            CASE R = 0 -> Mean(y)
              [] R > 0 /\ R >= m - 1 -> GroupMean(x, y, p)
              [] R = 1 /\ m > 2 -> LinearFit(x, y, p)])

\* Mutant: the option is exercised when the payout is below the estimate.
Condition_Reversed(payout, continuation) == payout < continuation

\* condition = payouts[:, tex_index] > continuation_price
Condition(payout, continuation) == payout > continuation

\* np.where(condition, x, y) for one date.
Realized(x, y, cont) ==
    Array([p \in 1..Len(x) |->
        IF Condition(x[p], cont[p]) THEN x[p] ELSE y[p]])

\* The dates the backward loop visits: range(len(tex) - 1, 1, -1).
LoopFirst(texN) == Len(texN) - 1

LoopStop == 1

\* The backward loop from tex_index down to LoopStop (excluded).
RECURSIVE BackwardPass(_, _, _, _, _)
BackwardPass(tex_index, tp, payouts, paths, R) ==
    IF tex_index <= LoopStop THEN tp
    ELSE BackwardPass(tex_index - 1,
            [tp EXCEPT ![tex_index] =
                Realized(payouts[tex_index], tp[tex_index + 1],
                         Continuation_price(paths[tex_index],
                                            tp[tex_index + 1], R))],
            payouts, paths, R)

\* _calc_MC.  np.polyfit raises ValueError for a negative degree, at the
\* first pass of the loop; no other value of R or npaths is refused.
Bermudan_calc_MC(o, texN, ps, s0) ==
    LET npaths  == ps.npaths
        R       == ps.R
        paths   == Generate_stock_price_paths(o, texN, npaths, s0)
        payouts == PayoutMatrix(o, paths)
        s1      == RngAfter(s0, Len(texN) * npaths)
        mats    == [NoLoc EXCEPT !.stock_price_paths = paths,
                                 !.payouts = payouts]
    IN  IF R < 0 /\ LoopFirst(texN) > LoopStop
        THEN [outcome |-> "ValueError", px_spec |-> ps, rng |-> s1,
              loc |-> [mats EXCEPT !.terminal_payouts = payouts]]
        ELSE
          LET tp1 == BackwardPass(LoopFirst(texN), payouts, payouts, paths, R)
              tp  == [tp1 EXCEPT ![0] = tp1[1]]
          IN  [outcome |-> "returned",
               px_spec |-> [ps EXCEPT !.has_px = TRUE, !.px = Mean(tp[0])],
               rng |-> s1,
               loc |-> [mats EXCEPT !.terminal_payouts = tp]]

----------------------------------------------------------------------------
(* Shout                                                                   *)

\* d1 = (0 + (rf_r + vol ** 2 / 2) * tleft) / (vol * sqrt(tleft))
ShoutD1(o, tleft) ==
    Div(0 + Mul(o.rf_r + (Mul(o.vol, o.vol) \div 2), tleft),
        Mul(o.vol, Sqrt(tleft)))

\* d2 = d1 - vol * sqrt(tleft)
ShoutD2(o, tleft) == ShoutD1(o, tleft) - Mul(o.vol, Sqrt(tleft))

\* The value locked by shouting at asset price s with tleft to maturity.
ShoutValue(o, s, tleft) ==
    Mul(Div(o.signCP * s, Exp(Mul(o.q, tleft))), Phi(o.signCP * ShoutD1(o, tleft)))
    - Mul(Div(o.signCP * s, Exp(Mul(o.rf_r, tleft))), Phi(o.signCP * ShoutD2(o, tleft)))
    + Div(o.signCP * (s - o.K), Exp(Mul(o.rf_r, tleft)))

\* Mutant: the locked value replaces the continuation value.
ShoutOrHold_Replace(cont, shout) == Max2(shout, 0)

\* O = maximum(O, maximum(Shout, 0)) for one node.
ShoutOrHold(cont, shout) == Max2(cont, Max2(shout, 0))

\* One pass of the loop body for step i of n: the layer of step i - 1.
ShoutStep(i, n, S, O, lt, o) ==
    LET left  == n - i + 1
        tleft == (left * lt.dtNum) \div lt.dtDen
        S1    == PriorS(lt, S, i)
    IN  [S |-> S1,
         O |-> Array([j \in 1..i |->
                  ShoutOrHold(Continuation(lt, O, j), ShoutValue(o, S1[j], tleft))])]

RECURSIVE ShoutBackward(_, _, _, _, _, _, _, _)
ShoutBackward(i, n, S, O, S_tree, O_tree, lt, o) ==
    IF i = 0 THEN [O |-> O, S_tree |-> S_tree, O_tree |-> O_tree]
    ELSE LET st == ShoutStep(i, n, S, O, lt, o)
         IN  ShoutBackward(i - 1, n, st.S, st.O, <<st.S>> \o S_tree,
                           <<st.O>> \o O_tree, lt, o)

\* Shout._calc_LT
Shout_calc_LT(o, ps) ==
    LET n  == ps.nsteps
        lt == LT_specs(o, n)
    IN  IF ~lt.ok THEN [outcome |-> "InvalidParameter", px_spec |-> ps, loc |-> NoLoc]
        ELSE
          LET S == TerminalS(o, lt, n)
              O == Payout(o, S)
              r == ShoutBackward(n, n, S, O, <<S>>, <<O>>, lt, o)
          IN  [outcome |-> "returned",
               px_spec |-> [ps EXCEPT !.has_px = TRUE, !.px = r.O[1],
                               !.method = "LT",
                               !.sub_method = "binomial tree; Hull Ch.13",
                               !.LT_specs = lt,
                               !.ref_tree = IF ps.keep_hist THEN r.S_tree ELSE NoTree,
                               !.opt_tree = IF ps.keep_hist THEN r.O_tree ELSE NoTree],
               loc |-> [NoLoc EXCEPT !.S_tree = r.S_tree, !.O_tree = r.O_tree,
                                     !.LT_specs = lt]]

\* Shout._calc_BS, _calc_MC and _calc_FD: return self.
Shout_calc_BS(ps) == [outcome |-> "returned", px_spec |-> ps, loc |-> NoLoc]

Shout_calc_MC(ps) == [outcome |-> "returned", px_spec |-> ps, loc |-> NoLoc]

Shout_calc_FD(ps) == [outcome |-> "returned", px_spec |-> ps, loc |-> NoLoc]

----------------------------------------------------------------------------
(* Chooser                                                                 *)

\* float('nan'): what numpy arithmetic yields for 0 * inf; no price is negative.
NaN == -(SC * SC * SC)

\* exp(csl[n] - csl[j] - csl[n - j]): the binomial coefficient n over j.
RECURSIVE Choose(_, _)
Choose(n, j) ==
    IF j = 0 \/ j = n THEN 1 ELSE Choose(n - 1, j - 1) + Choose(n - 1, j)

\* log(p) * arange(n + 1) + log(1 - p) * arange(n + 1)[::-1] has a nan entry
\* (-inf * 0) when p is 0 or 1.
LogWeightsNaN(lt) == lt.p = 0 \/ lt.p = SC

\* exp(tmp)[j]: the probability of j up-moves in n steps.
BinomialWeight(lt, n, j) ==
    Choose(n, j) * Mul(Pow(lt.p, j), Pow(SC - lt.p, n - j))

\* out = df_T * sum(exp(tmp) * tuple(O))
ClosedForm(lt, n, O) ==
    IF LogWeightsNaN(lt) THEN NaN
    ELSE Mul(lt.df_T,
             SeqSum([k \in 1..(n + 1) |-> Mul(BinomialWeight(lt, n, k - 1), O[k])]))

\* Mutant: the step applies early exercise, as an American lattice would.
ChooserStep_Exercise(i, S, O, lt, o) ==
    LET S1 == PriorS(lt, S, i)
        P1 == Payout(o, S1)
    IN  [S |-> S1,
         O |-> Array([j \in 1..i |-> Max2(Continuation(lt, O, j), P1[j])])]

\* One pass of the loop body for step i: the layer of step i - 1.
ChooserStep(i, S, O, lt, o) ==
    [S |-> PriorS(lt, S, i),
     O |-> Array([j \in 1..i |-> Continuation(lt, O, j)])]

RECURSIVE ChooserBackward(_, _, _, _, _, _, _)
ChooserBackward(i, S, O, S_tree, O_tree, lt, o) ==
    IF i = 0 THEN [O |-> O, S_tree |-> S_tree, O_tree |-> O_tree]
    ELSE LET st == ChooserStep(i, S, O, lt, o)
         IN  ChooserBackward(i - 1, st.S, st.O, <<st.S>> \o S_tree,
                             <<st.O>> \o O_tree, lt, o)

\* Chooser._calc_LT: the loop when keep_hist is set, the closed form when not.
Chooser_calc_LT(o, ps) ==
    LET n  == ps.nsteps
        lt == LT_specs(o, n)
    IN  IF ~lt.ok THEN [outcome |-> "InvalidParameter", px_spec |-> ps, loc |-> NoLoc]
        ELSE
          LET S == TerminalS(o, lt, n)
              O == Payout(o, S)
              r == IF ps.keep_hist
                   THEN ChooserBackward(n, S, O, <<S>>, <<O>>, lt, o)
                   ELSE [O |-> <<ClosedForm(lt, n, O)>>, S_tree |-> NoTree,
                         O_tree |-> NoTree]
          IN  [outcome |-> "returned",
               px_spec |-> [ps EXCEPT !.has_px = TRUE, !.px = r.O[1],
                               !.sub_method = "binomial tree; Hull Ch.135",
                               !.LT_specs = lt,
                               !.ref_tree = r.S_tree,
                               !.opt_tree = r.O_tree],
               loc |-> [NoLoc EXCEPT !.S_tree = r.S_tree, !.O_tree = r.O_tree,
                                     !.LT_specs = lt]]

\* Chooser._calc_MC and _calc_FD: return self.
Chooser_calc_MC(ps) == [outcome |-> "returned", px_spec |-> ps, loc |-> NoLoc]

Chooser_calc_FD(ps) == [outcome |-> "returned", px_spec |-> ps, loc |-> NoLoc]

----------------------------------------------------------------------------
(* The function chooser(S, K, T, vol, rfr, q, right, tau).                 *)

\* Python values as the function receives them.
Float(v) == [type |-> "float", v |-> v]

Text(t) == [type |-> "str", t |-> t]

NoneValue == [type |-> "NoneType"]

Failed == [ok |-> FALSE, v |-> 0]

\* float(x): a number as it is, a string by its numeral, TypeError or
\* ValueError for anything else.
ToFloat(x) ==
    CASE x.type = "float" -> [ok |-> TRUE, v |-> x.v]
      [] x.type = "str" /\ x.t = "50" -> [ok |-> TRUE, v |-> 50 * SC]
      [] x.type = "str" /\ x.t = "0.5" -> [ok |-> TRUE, v |-> SC \div 2]
      [] OTHER -> Failed

\* right.lower(): AttributeError for what is no string.
Lower(x) ==
    CASE x.type = "str" /\ x.t \in {"call", "Call", "CALL"} -> [ok |-> TRUE, v |-> "call"]
      [] x.type = "str" /\ x.t \in {"put", "Put"} -> [ok |-> TRUE, v |-> "put"]
      [] x.type = "str" -> [ok |-> TRUE, v |-> x.t]
      [] OTHER -> [ok |-> FALSE, v |-> ""]

\* inf of numpy arithmetic: beyond every finite value of the model.
Inf == SC * SC * SC

RECURSIVE LogFrom(_, _, _)
LogFrom(x, lo, hi) ==
    IF hi - lo <= 1 THEN lo
    ELSE LET mid == (lo + hi) \div 2
         IN  IF Exp(mid) <= x THEN LogFrom(x, mid, hi) ELSE LogFrom(x, lo, mid)

\* numpy log: -inf at 0, else the largest y with exp(y) <= x.
Log(x) == IF x = 0 THEN -Inf ELSE LogFrom(x, -8 * SC, 8 * SC)

\* numpy division: inf or nan for a zero divisor, no exception.
FloatDiv(a, b) ==
    CASE b = 0 /\ a > 0 -> Inf
      [] b = 0 /\ a < 0 -> -Inf
      [] b = 0 /\ a = 0 -> NaN
      [] b # 0 /\ a >= Inf \div 2 -> Inf
      [] b # 0 /\ a <= -(Inf \div 2) -> -Inf
      [] OTHER -> TruncDiv(a * SC, b)

\* norm.cdf on the extended values.
PhiExt(x) ==
    CASE x >= Inf \div 2 -> SC
      [] x <= -(Inf \div 2) -> 0
      [] OTHER -> Phi(x)

\* Lines 290-296: the price of the chooser by the closed formula.
ChooserPrice(S, K, T, vol, rfr, q, tauA) ==
    LET lg   == Log(Div(S, K))
        sT   == Mul(vol, Sqrt(T))
        st   == Mul(vol, Sqrt(tauA))
        v2   == Mul(vol, vol)
        d2   == FloatDiv(lg + Mul(rfr - q - v2 \div 2, T), sT)
        d1   == d2 + sT
        d2n  == FloatDiv(lg + Mul(rfr - q, T) - Mul(v2, tauA) \div 2, st)
        d1n  == d2n + st
        Sq   == Mul(S, Exp(-Mul(q, T)))
        Kr   == Mul(K, Exp(-Mul(rfr, T)))
    IN  IF d2n = NaN THEN NaN
        ELSE Mul(Sq, PhiExt(d1)) - Mul(Kr, PhiExt(d2))
             + Mul(Kr, PhiExt(-d2n)) - Mul(Sq, PhiExt(-d1n))

ReturnValue(v) == [outcome |-> "returned", ret |-> v]

\* The whole function: the coercions inside try/except, the assertions in
\* their order, the formula.
ChooserFunctionResult(S, K, T, vol, rfr, q, right, tauA) ==
    LET r  == Lower(right)
        fS == ToFloat(S)
        fK == ToFloat(K)
        fT == ToFloat(T)
        fv == ToFloat(vol)
        fr == ToFloat(rfr)
        fq == ToFloat(q)
        ft == ToFloat(tauA)
    IN  IF ~(r.ok /\ fS.ok /\ fK.ok /\ fT.ok /\ fv.ok /\ fr.ok /\ fq.ok /\ ft.ok)
        THEN ReturnValue([type |-> "bool", v |-> FALSE])
        ELSE IF ~(/\ r.v \in {"call", "put"}
                  /\ fv.v > 0
                  /\ fK.v > 0
                  /\ fT.v > 0
                  /\ fS.v >= 0
                  /\ fr.v >= 0
                  /\ fq.v >= 0)
        THEN [outcome |-> "AssertionError", ret |-> NoneValue]
        ELSE ReturnValue(Float(ChooserPrice(fS.v, fK.v, fT.v, fv.v, fr.v, fq.v, ft.v)))

ChooserFunction(S, K, T, vol, rfr, q, right, tauA) ==
    /\ \E r \in {ChooserFunctionResult(S, K, T, vol, rfr, q, right, tauA)} :
          call' = [cls |-> "chooser", outcome |-> r.outcome, ret |-> r.ret,
                   args |-> [S |-> S, K |-> K, T |-> T, vol |-> vol, rfr |-> rfr,
                             q |-> q, right |-> right, tau |-> tauA]]
    /\ UNCHANGED <<opt, tex, tau, px_spec, rng, loc, mcRef>>

----------------------------------------------------------------------------
(* The entry points.                                                       *)

\* method.upper()
Upper(method) ==
    CASE method = "lt" -> "LT"
      [] method = "mc" -> "MC"
      [] OTHER -> method

\* No method of that name: getattr raises.
NoSuchMethod(ps) == [outcome |-> "AttributeError", px_spec |-> ps, loc |-> NoLoc]

\* getattr(self, '_calc_' + method.upper())() of a Bermudan.
BermudanDispatch(o, texN, ps, s0) ==
    CASE Upper(ps.method) = "LT" ->
            [rng |-> s0] @@ Bermudan_calc_LT(o, texN, ps)
      [] Upper(ps.method) = "MC" -> Bermudan_calc_MC(o, texN, ps, s0)
      [] Upper(ps.method) = "BS" -> [rng |-> s0] @@ Bermudan_calc_BS(ps)
      [] Upper(ps.method) = "FD" -> [rng |-> s0] @@ Bermudan_calc_FD(ps)
      [] OTHER -> [rng |-> s0] @@ NoSuchMethod(ps)

\* The whole of Bermudan.calc_px: what it leaves in self.tex, self.px_spec,
\* the generator and the locals, and how it ends.
BermudanCalcPxResult(o, old_px_spec, old_rng, method, texA, nsteps, npaths, keep_hist, R, seed) ==
    LET s0   == Reseed(old_rng, seed)
        T    == SeqMax(texA)
        texN == NormaliseTex(texA, o.T)
    IN  IF KnStepsOutcome(texN) # "ok"
        THEN [tex |-> texN, rng |-> s0, px_spec |-> old_px_spec,
              loc |-> NoLoc, outcome |-> KnStepsOutcome(texN)]
        ELSE [tex |-> texN]
             @@ BermudanDispatch(o, texN,
                    PriceSpec(method, StepCount(texN, T, nsteps), npaths,
                              keep_hist, R, seed), s0)

\* What identifies a Monte Carlo call: the option and the arguments.
McKey(o, c) == [opt |-> o, tex |-> c.tex, npaths |-> c.npaths, R |-> c.R,
                seed |-> c.seed]

\* mcRef: a Monte Carlo call chosen at will among the earlier ones, with
\* what it produced; fresh while the last call is the one it records.
NoRef == [valid |-> FALSE, fresh |-> FALSE, key |-> << >>, outcome |-> "",
          stock_price_paths |-> << >>, has_px |-> FALSE, px |-> 0]

BermudanCalcPx(method, texA, nsteps, npaths, keep_hist, R, seed) ==
    /\ opt.cls = "Bermudan"
    /\ \E r \in {BermudanCalcPxResult(opt, px_spec, rng, method, texA, nsteps,
                                      npaths, keep_hist, R, seed)} :
         LET c == [cls |-> "Bermudan", method |-> method, tex |-> texA,
                   tau |-> None, nsteps |-> nsteps, npaths |-> npaths,
                   keep_hist |-> keep_hist, R |-> R, seed |-> seed,
                   outcome |-> r.outcome]
         IN  /\ tex' = r.tex
             /\ px_spec' = r.px_spec
             /\ rng' = r.rng
             /\ loc' = r.loc
             /\ call' = c
             /\ IF Upper(method) = "MC"
                THEN mcRef' \in {[mcRef EXCEPT !.fresh = FALSE],
                                 [valid |-> TRUE, fresh |-> TRUE,
                                  key |-> McKey(opt, c),
                                  outcome |-> r.outcome,
                                  stock_price_paths |-> r.loc.stock_price_paths,
                                  has_px |-> r.px_spec.has_px,
                                  px |-> r.px_spec.px]}
                ELSE mcRef' = mcRef
    /\ UNCHANGED <<opt, tau>>

\* OptionValuation.calc_px, which Shout.calc_px calls: store the arguments
\* and dispatch on the method.
ShoutDispatch(o, ps) ==
    CASE Upper(ps.method) = "LT" -> Shout_calc_LT(o, ps)
      [] Upper(ps.method) = "BS" -> Shout_calc_BS(ps)
      [] Upper(ps.method) = "MC" -> Shout_calc_MC(ps)
      [] Upper(ps.method) = "FD" -> Shout_calc_FD(ps)
      [] OTHER -> NoSuchMethod(ps)

ShoutCalcPx(method, nsteps, npaths, keep_hist) ==
    /\ opt.cls = "Shout"
    /\ \E r \in {ShoutDispatch(opt, PriceSpec(method, nsteps, npaths,
                                              keep_hist, None, None))} :
           /\ px_spec' = r.px_spec
           /\ loc' = r.loc
           /\ call' = [NoCall EXCEPT !.cls = "Shout", !.method = method,
                          !.nsteps = nsteps, !.npaths = npaths,
                          !.keep_hist = keep_hist, !.outcome = r.outcome]
    /\ UNCHANGED <<opt, tex, tau, rng, mcRef>>

\* getattr(self, '_calc_' + method.upper())() of a Chooser, for the methods
\* the calls of this model select (every one but BS).
ChooserDispatch(o, ps) ==
    CASE Upper(ps.method) = "LT" -> Chooser_calc_LT(o, ps)
      [] Upper(ps.method) = "MC" -> Chooser_calc_MC(ps)
      [] Upper(ps.method) = "FD" -> Chooser_calc_FD(ps)
      [] Upper(ps.method) \notin {"BS", "LT", "MC", "FD"} -> NoSuchMethod(ps)

\* What identifies a lattice valuation of a Chooser apart from tau.
ChooserKey(o, c) == [opt |-> o, method |-> Upper(c.method), nsteps |-> c.nsteps, keep_hist |-> c.keep_hist]

\* track: whether the history keeps this call for comparison.
ChooserCalcPx(tauA, method, nsteps, npaths, keep_hist, track) ==
    /\ opt.cls = "Chooser"
    /\ \E r \in {ChooserDispatch(opt, PriceSpec(method, nsteps, npaths,
                                                keep_hist, None, None))} :
         LET c == [NoCall EXCEPT !.cls = "Chooser", !.method = method,
                      !.tau = tauA, !.nsteps = nsteps, !.npaths = npaths,
                      !.keep_hist = keep_hist, !.outcome = r.outcome]
         IN  /\ tau' = tauA
             /\ px_spec' = r.px_spec
             /\ loc' = r.loc
             /\ call' = c
             /\ IF track
                THEN mcRef' \in {[mcRef EXCEPT !.fresh = FALSE],
                                 [valid |-> TRUE, fresh |-> TRUE,
                                  key |-> ChooserKey(opt, c), tau |-> tauA,
                                  outcome |-> r.outcome,
                                  stock_price_paths |-> << >>,
                                  has_px |-> r.px_spec.has_px,
                                  px |-> r.px_spec.px]}
                ELSE mcRef' = mcRef
    /\ UNCHANGED <<opt, tex, rng>>

\* A new option object takes the place of the old one.
Construct(o) ==
    /\ opt' = o
    /\ tex' = << >>
    /\ tau' = None
    /\ px_spec' = NoPriceSpec
    /\ call' = NoCall
    /\ loc' = NoLoc
    /\ UNCHANGED <<rng, mcRef>>

\* Other code of the process draws one sample from the generator.
AmbientDraw ==
    /\ rng' = RngNext(rng)
    /\ UNCHANGED <<opt, tex, tau, px_spec, call, loc, mcRef>>

----------------------------------------------------------------------------
(* The objects and the arguments of the calls.                             *)

Option(cls, S0, vol, K, T, rf_r, q, right) ==
    [cls |-> cls, S0 |-> S0, vol |-> vol, q |-> q, K |-> K, T |-> T,
     rf_r |-> rf_r, right |-> right, signCP |-> SignCP(right)]

Rights == {"call", "put"}

BermudanOptions ==
    {Option("Bermudan", 5000, 30, 8000, 200, 5, 0, "put"),
     Option("Bermudan", 5000, 30, 4000, 200, 5, 4, "call")}

ShoutOptions ==
    {Option("Shout", 5000, 30, K, 200, 5, q, right) :
        K \in {5200, 4000}, q \in {0, 3}, right \in Rights}

\* The second one has a = u on a lattice of one step: p = 1.
ChooserOptions ==
    {Option("Chooser", 5000, 25, 5000, 100, 8, 0, "call"),
     Option("Chooser", 5000, 20, 5000, 100, 20, 0, "call"),
     Option("Chooser", 5000, 25, 6000, 100, 8, 0, "put")}

Options == BermudanOptions \cup ShoutOptions \cup ChooserOptions

TexArgsLT ==
    {<<100>>, <<200>>, <<100, 200>>, <<50, 100>>, <<50, 100, 150, 200>>,
     <<100, 300>>, <<200, 100>>, <<150, 50>>, <<100, 100, 200>>,
     <<150, 50, 300>>, <<60, 200>>}

NStepsArgs == {None, 1, 2}

MaxShoutSteps == 3

MaxChooserSteps == 2

\* A selector that names no valuation method.
UnknownMethods == {"XX"}

InitVars(Opts, RngStates) ==
    /\ opt \in Opts
    /\ tex = << >>
    /\ tau = None
    /\ px_spec = NoPriceSpec
    /\ rng \in RngStates
    /\ call = NoCall
    /\ loc = NoLoc
    /\ mcRef = NoRef

----------------------------------------------------------------------------
(* Spec: the lattice pricers and the method stubs of the three classes.    *)

\* No lattice pricer draws from the generator: one start state stands for all.
Init == InitVars(Options, {0})

NewObject == \E o \in Options : Construct(o)

BermudanLattice ==
    \E texA \in TexArgsLT, nsteps \in NStepsArgs, keep_hist \in BOOLEAN :
        BermudanCalcPx("LT", texA, nsteps, None, keep_hist, 3, 7)

BermudanStub ==
    \E method \in {"BS", "FD"} \cup UnknownMethods, texA \in {<<100, 200>>, <<200>>} :
        BermudanCalcPx(method, texA, None, None, FALSE, 3, 7)

ShoutCall ==
    \E method \in {"LT", "BS", "MC", "FD"}, nsteps \in 1..MaxShoutSteps,
       keep_hist \in BOOLEAN :
        ShoutCalcPx(method, nsteps, None, keep_hist)

ChooserCall ==
    \E tauA \in {None, 50}, method \in {"LT", "MC", "FD"} \cup UnknownMethods,
       nsteps \in 1..MaxChooserSteps, keep_hist \in BOOLEAN :
        ChooserCalcPx(tauA, method, nsteps, None, keep_hist, FALSE)

Next ==
    NewObject \/ BermudanLattice \/ BermudanStub \/ ShoutCall \/ ChooserCall

Spec == Init /\ [][Next]_vars

----------------------------------------------------------------------------
(* SpecMC: Bermudan Monte Carlo among other calls and other draws.         *)

McOptions == {Option("Bermudan", 1100, 40, 1500, 100, 5, 0, "put")}

TexArgsMC == {<<50, 100>>, <<25, 50, 75, 100>>}

MaxPaths == 3

DegreeArgs == {-1, 1, 7}

SeedArgs == {1, 2}

\* The generator of a fresh process is seeded from the system: any state.
InitMC == InitVars(McOptions, 0..(RngMod - 1))

NewObjectMC == \E o \in McOptions : Construct(o)

BermudanMonteCarlo ==
    \E texA \in TexArgsMC, npaths \in 2..MaxPaths, R \in DegreeArgs,
       seed \in SeedArgs :
        BermudanCalcPx("MC", texA, None, npaths, TRUE, R, seed)

BermudanOther ==
    \E seed \in SeedArgs :
        BermudanCalcPx("LT", <<50, 100>>, None, None, FALSE, 3, seed)

NextMC == NewObjectMC \/ BermudanMonteCarlo \/ BermudanOther \/ AmbientDraw

SpecMC == InitMC /\ [][NextMC]_vars

----------------------------------------------------------------------------
(* SpecChooser: lattice valuations of a Chooser, one earlier call kept.    *)

InitChooser == InitVars(ChooserOptions, {0})

NewObjectChooser == \E o \in ChooserOptions : Construct(o)

ChooserLattice ==
    \E tauA \in {None, 25, 50}, method \in {"LT", "lt"},
       nsteps \in 1..MaxChooserSteps, keep_hist \in BOOLEAN :
        ChooserCalcPx(tauA, method, nsteps, None, keep_hist, TRUE)

NextChooser == NewObjectChooser \/ ChooserLattice

SpecChooser == InitChooser /\ [][NextChooser]_vars

----------------------------------------------------------------------------
(* SpecFn: calls of the function chooser().                                *)

\* The function reads no object: one start state stands for all.
InitFn == InitVars({Option("Chooser", 5000, 25, 5000, 100, 8, 0, "call")}, {0})

ChooserFunctionCall ==
    \E S \in {Float(50 * SC), Float(0), Float(-SC), Text("50"), Text("abc")},
       K \in {Float(50 * SC), Float(0)},
       T \in {Float(SC), NoneValue},
       vol \in {Float(25), Float(-25)},
       rfr \in {Float(8), Float(-1)},
       q \in {Float(0), Float(-1)},
       right \in {Text("call"), Text("Put"), Text("both"), Float(1)},
       tauA \in {Float(SC \div 4), Float(0)} :
        ChooserFunction(S, K, T, vol, rfr, q, right, tauA)

NextFn == ChooserFunctionCall

SpecFn == InitFn /\ [][NextFn]_vars

----------------------------------------------------------------------------
(* Reference lattices for the claims: the same terminal layer carried back *)
(* with no adjustment (European) and with early exercise at every step     *)
(* (American).                                                             *)

RECURSIVE EuropeanTreeFrom(_, _, _, _)
EuropeanTreeFrom(i, O, tree, lt) ==
    IF i = 0 THEN tree
    ELSE LET O1 == Array([j \in 1..i |-> Continuation(lt, O, j)])
         IN  EuropeanTreeFrom(i - 1, O1, <<O1>> \o tree, lt)

\* The European option tree, root first, on the lattice lt of n steps.
EuropeanTree(o, lt, n) ==
    LET O == Payout(o, TerminalS(o, lt, n))
    IN  EuropeanTreeFrom(n, O, <<O>>, lt)

RECURSIVE AmericanRootFrom(_, _, _, _, _)
AmericanRootFrom(i, S, O, lt, o) ==
    IF i = 0 THEN O[1]
    ELSE LET S1 == PriorS(lt, S, i)
             P1 == Payout(o, S1)
         IN  AmericanRootFrom(i - 1, S1,
                Array([j \in 1..i |-> Max2(Continuation(lt, O, j), P1[j])]),
                lt, o)

\* The American price on the lattice lt of n steps.
AmericanRoot(o, lt, n) ==
    LET S == TerminalS(o, lt, n)
    IN  AmericanRootFrom(n, S, Payout(o, S), lt, o)

\* The last call was an LT valuation of class cls that returned.
ReturnedLT(cls) ==
    /\ call.cls = cls
    /\ Upper(call.method) = "LT"
    /\ call.outcome = "returned"

\* Time s * dt of lattice step s is a date of the schedule.
NodeTimeScheduled(s, lt, texN) ==
    \E k \in 1..Len(texN) : s * lt.dtNum = texN[k] * lt.dtDen

\* The intrinsic payoff at node j of step s of the asset tree.
Intrinsic(o, S_tree, s, j) == Max2(o.signCP * (S_tree[s + 1][j] - o.K), 0)

----------------------------------------------------------------------------
(* The claims.                                                             *)

\* C1: in Bermudan._calc_LT, at every node of every step s in 0..n-1 the
\* held value is max(continuation, intrinsic) when the node's time s*dt is a
\* date of tex, and the continuation value alone when it is not.
C1_ExerciseOnlyAtScheduledNodeTimes ==
    ReturnedLT("Bermudan") =>
        \A s \in 0..(px_spec.nsteps - 1) : \A j \in 1..(s + 1) :
            LET lt   == loc.LT_specs
                cont == Continuation(lt, loc.O_tree[s + 2], j)
            IN  loc.O_tree[s + 1][j] =
                    IF NodeTimeScheduled(s, lt, tex)
                    THEN Max2(cont, Intrinsic(opt, loc.S_tree, s, j))
                    ELSE cont

\* C2: calc_px(method='LT') with a schedule holding only the maturity,
\* tex = (T,), completes and reports the European lattice price.
C2_MaturityOnlyScheduleIsEuropean ==
    (call.cls = "Bermudan" /\ Upper(call.method) = "LT" /\ call.tex = <<opt.T>>) =>
        /\ call.outcome = "returned"
        /\ px_spec.has_px
        /\ px_spec.px = EuropeanTree(opt, px_spec.LT_specs, px_spec.nsteps)[1][1]

\* The caller's schedule is every step of the lattice: (dt, 2*dt, ..., n*dt)
\* with n*dt = T.
EveryStepSchedule ==
    /\ Len(call.tex) = px_spec.nsteps
    /\ \A k \in 1..Len(call.tex) : call.tex[k] * px_spec.nsteps = k * opt.T

C4_ShoutAtLeastEuropean ==
    ReturnedLT("Shout") =>
        LET E == EuropeanTree(opt, loc.LT_specs, px_spec.nsteps)
        IN  /\ loc.LT_specs.p \in 0..SC
            /\ \A s \in 0..(px_spec.nsteps - 1) : \A j \in 1..(s + 1) :
                  loc.O_tree[s + 1][j] >= E[s + 1][j]

\* C4's case: a shout lattice of several steps where the shout right adds
\* value at one node and none at another.
C4_Witness ==
    /\ ReturnedLT("Shout")
    /\ px_spec.nsteps >= 2
    /\ LET E == EuropeanTree(opt, loc.LT_specs, px_spec.nsteps)
       IN  /\ \E s \in 0..(px_spec.nsteps - 1) : \E j \in 1..(s + 1) :
                 loc.O_tree[s + 1][j] > E[s + 1][j]
           /\ \E s \in 0..(px_spec.nsteps - 1) : \E j \in 1..(s + 1) :
                 loc.O_tree[s + 1][j] = E[s + 1][j] /\ E[s + 1][j] > 0

StrictlyIncreasing(t) == \A k \in 1..(Len(t) - 1) : t[k] < t[k + 1]

\* C5: whatever non-empty tex the caller gives, the schedule calc_px stores
\* is strictly increasing, has every date in (0, T] and ends with T.
C5_StoredScheduleIsOrdered ==
    (call.cls = "Bermudan" /\ call.tex # << >>) =>
        /\ StrictlyIncreasing(tex)
        /\ \A k \in 1..Len(tex) : 0 < tex[k] /\ tex[k] <= opt.T
        /\ tex[Len(tex)] = opt.T

\* tex with its largest value replaced by T, every other date kept.
ReplaceLargest(texA, T) ==
    [k \in 1..Len(texA) |-> IF texA[k] = SeqMax(texA) THEN T ELSE texA[k]]

\* C6: T takes precedence over tex: if T < max(tex) the stored schedule is
\* the dates of tex below T, in order, followed by T; if T > max(tex) it is
\* tex with its largest value replaced by T.
C6_MaturityTakesPrecedence ==
    (call.cls = "Bermudan" /\ call.tex # << >>) =>
        /\ opt.T < SeqMax(call.tex) =>
              tex = SelectSeq(call.tex, LAMBDA t : t < opt.T) \o <<opt.T>>
        /\ opt.T > SeqMax(call.tex) => tex = ReplaceLargest(call.tex, opt.T)

\* The valuation methods that have no implementation.
Unimplemented(cls, method) ==
    \/ cls = "Bermudan" /\ method \in {"BS", "FD"}
    \/ cls = "Shout" /\ method \in {"BS", "MC", "FD"}
    \/ cls = "Chooser" /\ method \in {"MC", "FD"}

\* C10: selecting an unimplemented method makes calc_px signal an error; it
\* never returns normally with a result object that holds no price.
C10_UnimplementedMethodSignals ==
    Unimplemented(call.cls, Upper(call.method)) =>
        call.outcome \notin {"", "returned"}

\* The last call was a Monte Carlo valuation of a Bermudan.
MonteCarloCall == call.cls = "Bermudan" /\ Upper(call.method) = "MC"

\* C7: Monte Carlo pricing is determined by the option, tex, npaths, R and
\* the seed, after any history of calls and draws: a call with the inputs of
\* an earlier call ends the same way with the same path matrix and price.
C7_MonteCarloIsDeterministic ==
    (MonteCarloCall /\ mcRef.valid /\ mcRef.key = McKey(opt, call)) =>
        /\ call.outcome = mcRef.outcome
        /\ loc.stock_price_paths = mcRef.stock_price_paths
        /\ px_spec.has_px = mcRef.has_px
        /\ px_spec.px = mcRef.px

\* C7's case: a Monte Carlo call that repeats the inputs of an earlier call
\* and produced paths and a price.
C7_Witness ==
    /\ MonteCarloCall
    /\ mcRef.valid
    /\ ~mcRef.fresh
    /\ mcRef.key = McKey(opt, call)
    /\ call.outcome = "returned"
    /\ px_spec.has_px
    /\ Len(tex) > 2

\* The dates the backward pass of the last call visited, per C8: from the
\* second-to-last exercise date down to the second.
VisitedDates == 2..(Len(tex) - 1)

C9_BadDegreeOrPathCountFails ==
    (MonteCarloCall /\ (call.R \notin 0..6 \/ call.npaths < call.R + 1)) =>
        /\ call.outcome # "returned"
        /\ loc.stock_price_paths = << >>
        /\ ~px_spec.has_px

\* C11: a calc_px call of a Bermudan or a Chooser with a selector that names
\* no valuation method fails at the entry point: the step that ends with the
\* failure leaves self.tex, self.px_spec, self.tau and the generator alone.
C11_UnknownMethodChangesNothing ==
    [][(call'.outcome = "AttributeError" /\ call'.cls \in {"Bermudan", "Chooser"}) =>
          (tex' = tex /\ px_spec' = px_spec /\ tau' = tau /\ rng' = rng)]_vars

\* The arguments break the validation contract of chooser(): one is not
\* coercible, or a coerced value is out of its domain.
BreaksContract(a) ==
    \/ ~Lower(a.right).ok
    \/ \E x \in {a.S, a.K, a.T, a.vol, a.rfr, a.q, a.tau} : ~ToFloat(x).ok
    \/ Lower(a.right).v \notin {"call", "put"}
    \/ ToFloat(a.vol).v <= 0
    \/ ToFloat(a.K).v <= 0
    \/ ToFloat(a.T).v <= 0
    \/ ToFloat(a.S).v < 0
    \/ ToFloat(a.rfr).v < 0
    \/ ToFloat(a.q).v < 0

\* C12: chooser() fails with an error, and returns nothing, for every input
\* that breaks the validation contract.
C12_ChooserFailsFast ==
    (call.cls = "chooser" /\ BreaksContract(call.args)) =>
        call.outcome # "returned"

\* The two evaluation orders of the lattice round differently: with the two
\* decimals this model carries they agree to within this much on n steps.
RoundingSlack(n) == n * (SC \div 5)

\* C13: keep_hist of Chooser.calc_px(method='LT') changes what is stored,
\* never the price: with or without it the price is the root value of the
\* step-by-step backward induction (up to rounding), and ref_tree and
\* opt_tree are stored only when keep_hist is set.
C13_KeepHistKeepsThePrice ==
    ReturnedLT("Chooser") =>
        LET n    == px_spec.nsteps
            root == EuropeanTree(opt, px_spec.LT_specs, n)[1][1]
        IN  /\ px_spec.has_px
            /\ px_spec.px # NaN
            /\ Abs(px_spec.px - root) <= RoundingSlack(n)
            /\ call.keep_hist => px_spec.px = root
            /\ (px_spec.ref_tree # NoTree) = call.keep_hist
            /\ (px_spec.opt_tree # NoTree) = call.keep_hist

\* C14: for every schedule and step count, the Bermudan LT price lies between
\* the European and the American price of the same option on the same lattice.
C14_BetweenEuropeanAndAmerican ==
    ReturnedLT("Bermudan") =>
        LET n == px_spec.nsteps
            lt == px_spec.LT_specs
        IN  /\ lt.p \in 0..SC
            /\ EuropeanTree(opt, lt, n)[1][1] <= px_spec.px
            /\ px_spec.px <= AmericanRoot(opt, lt, n)

\* C14's case: a schedule that allows exercise at some steps and not at
\* others, priced strictly between the two.
C14_Witness ==
    /\ ReturnedLT("Bermudan")
    /\ EuropeanTree(opt, px_spec.LT_specs, px_spec.nsteps)[1][1] < px_spec.px
    /\ px_spec.px < AmericanRoot(opt, px_spec.LT_specs, px_spec.nsteps)

\* C15: the backward pass of _calc_MC halts only before the current date
\* (column 0), so the realized payoff of the first exercise date (column 1)
\* is the result of the exercise-versus-continuation rule at that date, and
\* the price is the mean of these payoffs.
C15_FirstDateIsDecided ==
    (MonteCarloCall /\ call.outcome = "returned" /\ call.R >= 0) =>
        LET tp    == loc.terminal_payouts
            pay   == loc.payouts
            paths == loc.stock_price_paths
            cont  == Continuation_price(paths[1], tp[2], call.R)
        IN  /\ \A p \in 1..call.npaths :
                  tp[1][p] = IF pay[1][p] > cont[p] THEN pay[1][p] ELSE tp[2][p]
            /\ px_spec.px = Mean(tp[1])

\* tree has n + 1 layers and layer i from the root (i = 0..n) holds i + 1 values.
Triangular(tree, n) ==
    /\ Len(tree) = n + 1
    /\ \A i \in 0..n : Len(tree[i + 1]) = i + 1

\* C16: for LT pricing with n >= 1 steps in Shout, Bermudan and Chooser (with
\* keep_hist), the loop ends with the root price alone, and the asset tree
\* and the option tree have n + 1 layers, layer i of i + 1 values.
C16_TreesAreTriangular ==
    (\E cls \in {"Shout", "Bermudan", "Chooser"} : ReturnedLT(cls) /\ call.keep_hist) =>
        /\ px_spec.nsteps >= 1
        /\ Triangular(loc.S_tree, px_spec.nsteps)
        /\ Triangular(loc.O_tree, px_spec.nsteps)
        /\ Triangular(px_spec.ref_tree, px_spec.nsteps)
        /\ Triangular(px_spec.opt_tree, px_spec.nsteps)
        /\ px_spec.px = px_spec.opt_tree[1][1]

\* C16's case: a lattice of several steps priced with keep_hist, here by a
\* Chooser (the class whose loop runs only then).
C16_Witness ==
    /\ ReturnedLT("Chooser")
    /\ call.keep_hist
    /\ px_spec.nsteps >= 2
    /\ Triangular(px_spec.ref_tree, px_spec.nsteps)

\* C17: every date of the stored schedule falls on the grid of the step
\* count calc_px computes: each date equals i * dt for some step i in 1..n.
C17_ScheduleOnTheGrid ==
    ReturnedLT("Bermudan") =>
        \A k \in 1..Len(tex) : \E i \in 1..px_spec.nsteps :
            i * px_spec.LT_specs.dtNum = tex[k] * px_spec.LT_specs.dtDen


\* The drift of d1 as the claim C18 states it: (r - q + vol^2/2) * tleft over
\* vol * sqrt(tleft).
D1WithYield(o, tleft) ==
    Div(Mul(o.rf_r - o.q + (Mul(o.vol, o.vol) \div 2), tleft),
        Mul(o.vol, Sqrt(tleft)))

\* The locked shout value with d1 and d2 taken from D1WithYield.
ShoutValueWithYield(o, s, tleft) ==
    LET d1 == D1WithYield(o, tleft)
        d2 == d1 - Mul(o.vol, Sqrt(tleft))
    IN  Mul(Div(o.signCP * s, Exp(Mul(o.q, tleft))), Phi(o.signCP * d1))
        - Mul(Div(o.signCP * s, Exp(Mul(o.rf_r, tleft))), Phi(o.signCP * d2))
        + Div(o.signCP * (s - o.K), Exp(Mul(o.rf_r, tleft)))

\* C18: in Shout._calc_LT the locked shout value of every node is computed
\* with d1 = (r - q + vol^2/2) * tleft / (vol * sqrt(tleft)), the drift
\* including the dividend yield q for every q >= 0: each node of the layer
\* next to the terminal one holds the larger of its continuation value and
\* the shout value with that d1.
C18_DriftIncludesYield ==
    ReturnedLT("Shout") =>
        LET n     == px_spec.nsteps
            lt    == loc.LT_specs
            tleft == lt.dtNum \div lt.dtDen
        IN  /\ ShoutD1(opt, tleft) = D1WithYield(opt, tleft)
            /\ \A j \in 1..n :
                  loc.O_tree[n][j] =
                      ShoutOrHold(Continuation(lt, loc.O_tree[n + 1], j),
                                  ShoutValueWithYield(opt, loc.S_tree[n][j], tleft))


\* C19: Chooser.calc_px(method='LT') prices the chooser as a vanilla European
\* lattice: the terminal payout of node j is max(signCP * (S_j - K), 0), the
\* option vector of every earlier step is the discounted expectation of the
\* step after it with nothing added at any node, and the price is the same
\* for every decision time tau.
C19_ChooserIsEuropeanLattice ==
    ReturnedLT("Chooser") =>
        LET n  == px_spec.nsteps
            lt == px_spec.LT_specs
        IN  /\ px_spec.has_px
            /\ call.keep_hist =>
                  /\ \A j \in 1..(n + 1) :
                        px_spec.opt_tree[n + 1][j] =
                            Max2(opt.signCP * (px_spec.ref_tree[n + 1][j] - opt.K), 0)
                  /\ \A i \in 1..n : \A j \in 1..i :
                        px_spec.opt_tree[i][j] =
                            Continuation(lt, px_spec.opt_tree[i + 1], j)
                  /\ px_spec.px = px_spec.opt_tree[1][1]
            /\ (mcRef.valid /\ mcRef.key = ChooserKey(opt, call)) =>
                  /\ call.outcome = mcRef.outcome
                  /\ px_spec.has_px = mcRef.has_px
                  /\ px_spec.px = mcRef.px

\* C19's case: a chooser lattice of several steps with its trees kept, where
\* some node is in the money before maturity, priced again after an earlier
\* valuation of the same option with another decision time.
C19_Witness ==
    /\ ReturnedLT("Chooser")
    /\ call.keep_hist
    /\ px_spec.nsteps >= 2
    /\ px_spec.px > 0
    /\ \E i \in 1..px_spec.nsteps : \E j \in 1..i :
          opt.signCP * (px_spec.ref_tree[i][j] - opt.K) > 0
    /\ mcRef.valid
    /\ ~mcRef.fresh
    /\ mcRef.key = ChooserKey(opt, call)
    /\ mcRef.tau # tau

====
